---- MODULE Spec2Model ----
(***************************************************************************)
(* A model of little-man-computer.cpp: the two-pass assembler (parse), the *)
(* interpreter (execute) and the part of main that connects them.          *)
(*                                                                         *)
(* A character is a one-character string, a word or a line is a sequence   *)
(* of characters.  C++ int arithmetic is modelled on the integers with the *)
(* truncating division and remainder of the language; a store into the     *)
(* short array g_program narrows to 16 bits.                               *)
(***************************************************************************)
EXTENDS Integers, Sequences, FiniteSets, TLC

(***************************************************************************)
(* Bounds of the model.                                                    *)
(***************************************************************************)
\* the longest source file of Spec, in lines
MaxLines == 2
\* the number of instructions one run of execute may fetch
MaxSteps == 6
\* the number of lines that follow the 100 filling lines in a file of SpecCap
MaxExtra == 2
\* the longest line of SpecSplit, in characters
MaxLineLen == 4

(***************************************************************************)
(* Program constants.                                                      *)
(***************************************************************************)
MNEMONIC_NONE == -1
MNEMONIC_HLT == 0
MNEMONIC_ADD == 1
MNEMONIC_SUB == 2
MNEMONIC_STA == 3
MNEMONIC_LDA == 4
MNEMONIC_BRA == 5
MNEMONIC_BRZ == 6
MNEMONIC_BRP == 7
MNEMONIC_INP == 8
MNEMONIC_OUT == 9
MNEMONIC_DAT == 10

\* std::size(g_program)
MemSize == 100

\* the range of short
ShortMin == -32768
ShortSpan == 65536

(***************************************************************************)
(* C++ arithmetic.                                                         *)
(***************************************************************************)
\* a / b of two ints, b > 0: the quotient truncated toward zero
CDiv(a, b) == IF a >= 0 THEN a \div b ELSE -((-a) \div b)

\* a % b of two ints, b > 0: the remainder has the sign of a
CRem(a, b) == IF a >= 0 THEN a % b ELSE -((-a) % b)

\* the conversion of an int to short (modulo 2^16)
ToShort(v) == ((v - ShortMin) % ShortSpan) + ShortMin

\* the non-negative mathematical remainder
MathMod(a, b) == a % b

(***************************************************************************)
(* Characters.                                                             *)
(***************************************************************************)
\* isspace in the "C" locale (the vertical tab has no TLA+ string literal)
isspace(c) == c \in {" ", "\t", "\r", "\f"}

is_comment(c) == c = "#" \/ c = "/" \/ c = ";"

Digits == <<"0", "1", "2", "3", "4", "5", "6", "7", "8", "9">>

IsDigit(c) == \E i \in 1..10 : Digits[i] = c

\* c - '0' of a digit
DigitVal(c) == (CHOOSE i \in 1..10 : Digits[i] = c) - 1

LowerCase == <<"a", "b", "c", "d", "e", "f", "g", "h", "i", "j", "k", "l", "m",
               "n", "o", "p", "q", "r", "s", "t", "u", "v", "w", "x", "y", "z">>

UpperCase == <<"A", "B", "C", "D", "E", "F", "G", "H", "I", "J", "K", "L", "M",
               "N", "O", "P", "Q", "R", "S", "T", "U", "V", "W", "X", "Y", "Z">>

\* c - 0x20 for c in 'a'..'z', else c
ToUpper(c) ==
    IF \E i \in 1..26 : LowerCase[i] = c
    THEN UpperCase[CHOOSE i \in 1..26 : LowerCase[i] = c]
    ELSE c

(***************************************************************************)
(* split: the words of a line.  The position s is the 1-based index of the *)
(* pointer s of the code; s = Len(input) + 1 is the terminating '\0'.      *)
(***************************************************************************)
RECURSIVE SkipSpace(_, _)
SkipSpace(input, s) ==
    IF s <= Len(input) /\ isspace(input[s]) THEN SkipSpace(input, s + 1) ELSE s

\* WordEnd with the test of is_comment left out
RECURSIVE WordEndThroughComment(_, _)
WordEndThroughComment(input, s) ==
    IF s <= Len(input) /\ ~isspace(input[s])
    THEN WordEndThroughComment(input, s + 1)
    ELSE s

RECURSIVE WordEnd(_, _)
WordEnd(input, s) ==
    IF s <= Len(input) /\ ~isspace(input[s]) /\ ~is_comment(input[s])
    THEN WordEnd(input, s + 1)
    ELSE s

RECURSIVE SplitFrom(_, _, _)
SplitFrom(input, s, words) ==
    LET w == SkipSpace(input, s) IN
    IF w > Len(input) \/ is_comment(input[w])
    THEN words
    ELSE LET e == WordEnd(input, w) IN
         SplitFrom(input, e, Append(words, SubSeq(input, w, e - 1)))

split(input) == SplitFrom(input, 1, <<>>)

(***************************************************************************)
(* is_mnemonic                                                             *)
(***************************************************************************)
\* the names compared with, in the order of their mnemonic_t value
MnemonicNames ==
    << <<"H", "L", "T">>, <<"A", "D", "D">>, <<"S", "U", "B">>,
       <<"S", "T", "A">>, <<"L", "D", "A">>, <<"B", "R", "A">>,
       <<"B", "R", "Z">>, <<"B", "R", "P">>, <<"I", "N", "P">>,
       <<"O", "U", "T">>, <<"D", "A", "T">> >>

UpperWord(word) == [i \in 1..Len(word) |-> ToUpper(word[i])]

is_mnemonic(word) ==
    LET w == UpperWord(word) IN
    IF \E i \in 1..Len(MnemonicNames) : MnemonicNames[i] = w
    THEN (CHOOSE i \in 1..Len(MnemonicNames) : MnemonicNames[i] = w) - 1
    ELSE MNEMONIC_NONE

(***************************************************************************)
(* atoi: optional white space, an optional sign, then the digits up to the *)
(* first character that is none; 0 when there is no digit.                 *)
(***************************************************************************)
RECURSIVE AtoiDigits(_, _, _)
AtoiDigits(str, i, n) ==
    IF i <= Len(str) /\ IsDigit(str[i])
    THEN AtoiDigits(str, i + 1, n * 10 + DigitVal(str[i]))
    ELSE n

atoi(str) ==
    LET b == SkipSpace(str, 1) IN
    IF b <= Len(str) /\ str[b] = "-" THEN -AtoiDigits(str, b + 1, 0)
    ELSE IF b <= Len(str) /\ str[b] = "+" THEN AtoiDigits(str, b + 1, 0)
    ELSE AtoiDigits(str, b, 0)

(***************************************************************************)
(* The number of a pass 2 reference: the value of an all-digit word, else  *)
(* -1.                                                                     *)
(***************************************************************************)
RECURSIVE RefNumberFrom(_, _, _)
RefNumberFrom(word, i, number) ==
    IF i > Len(word) THEN number
    ELSE IF IsDigit(word[i])
         THEN RefNumberFrom(word, i + 1, number * 10 + DigitVal(word[i]))
         ELSE -1

RefNumber(word) == RefNumberFrom(word, 1, 0)

(***************************************************************************)
(* The state.                                                              *)
(***************************************************************************)
VARIABLES
    pc,          \* where the process is: "main", "parse", "pass1", "pass2",
                 \* "parsed", "execute", "exit", "crashed"
    cmdline,     \* what the command line holds
    opens,       \* whether the source file can be opened
    file,        \* the lines of the source file
    show,        \* main's show
    line,        \* parse's line
    split_words, \* parse's words: what split gave for the last line read
    errcount,    \* parse's errcount
    diags,       \* the error messages parse wrote to std::cerr (their kinds)
    ndiags,      \* the number of error messages parse wrote to std::cerr
    label_pc,    \* parse's label_pc: word -> address
    label_ref,   \* parse's label_ref: address -> word
    emitted,     \* the mnemonic of the line each cell was emitted for
    refit,       \* pass 2: the references below this address are done
    parse_ok,    \* what parse returned
    g_pc,        \* g_pc
    g_program,   \* g_program
    acc,         \* execute's acc
    overflow,    \* execute's overflow
    steps,       \* the instructions execute has fetched
    ninput,      \* the number of values read from std::cin
    consumed,    \* the values read from std::cin, in order
    fetched_cell, \* the value the last fetch of execute read
    output,      \* the values execute wrote to std::cout
    shown,       \* the <<address, value>> lines main's show loop wrote
    status       \* the exit status of the process, -1 while it runs

vars == <<pc, cmdline, opens, file, show, line, split_words, errcount, diags,
          ndiags, label_pc, label_ref, emitted, refit, parse_ok, g_pc,
          g_program, acc, overflow, steps, ninput, consumed, fetched_cell,
          output, shown, status>>

asmVars ==
    <<line, split_words, errcount, diags, ndiags, label_pc, label_ref, emitted,
      refit, g_pc, g_program>>
runVars == <<acc, overflow, steps, ninput, consumed, fetched_cell, output>>

(***************************************************************************)
(* Pass 1 of parse.  The assembler's state is handled as a record s with   *)
(* the fields g_pc, g_program, label_pc, label_ref, errcount, diags and    *)
(* ndiags.                                                                 *)
(***************************************************************************)
AsmState ==
    [g_pc |-> g_pc, g_program |-> g_program, label_pc |-> label_pc,
     label_ref |-> label_ref, errcount |-> errcount, diags |-> diags,
     ndiags |-> ndiags]

\* ++errcount; std::cerr << "error:" ...
Err(s, kind) ==
    [s EXCEPT !.errcount = @ + 1, !.diags = @ \cup {kind}, !.ndiags = @ + 1]

\* std::cerr << "error:" ... with no ++errcount
Diag(s, kind) == [s EXCEPT !.diags = @ \cup {kind}, !.ndiags = @ + 1]

\* Emit with the ++g_pc left out
EmitNoAdvance(s, value) == [s EXCEPT !.g_program[s.g_pc] = ToShort(value)]

\* g_program[g_pc] = value; ++g_pc;
Emit(s, value) ==
    [s EXCEPT !.g_program[s.g_pc] = ToShort(value), !.g_pc = @ + 1]

\* g_program[g_pc] = base; label_ref[g_pc] = parameter; ++g_pc;
EmitRef(s, base, parameter) ==
    [Emit(s, base) EXCEPT !.label_ref = (s.g_pc :> parameter) @@ s.label_ref]

\* an instruction that requires a parameter
WithParameter(s, base, parameter, kind) ==
    IF parameter = <<>> THEN Err(s, kind) ELSE EmitRef(s, base, parameter)

\* an instruction that accepts no parameter
NoParameter(s, base, parameter, kind) ==
    IF parameter # <<>> THEN Err(s, kind) ELSE Emit(s, base)

\* case MNEMONIC_DAT
Dat(s, parameter) ==
    IF parameter = <<>> THEN Emit(s, 0)
    ELSE LET value == atoi(parameter) IN
         IF value > 999 THEN Diag(s, "DAT supports numbers between 0 and 999")
         ELSE Emit(s, value)

\* switch(instruction)
Encode(s, instruction, parameter) ==
    CASE instruction = MNEMONIC_HLT ->
            NoParameter(s, 0, parameter, "HLT does not accept a parameter")
      [] instruction = MNEMONIC_ADD ->
            WithParameter(s, 100, parameter, "ADD requires a parameter")
      [] instruction = MNEMONIC_SUB ->
            WithParameter(s, 200, parameter, "SUB requires a parameter")
      [] instruction = MNEMONIC_STA ->
            WithParameter(s, 300, parameter, "STA requires a parameter")
      [] instruction = MNEMONIC_LDA ->
            WithParameter(s, 400, parameter, "LDA requires a parameter")
      [] instruction = MNEMONIC_BRA ->
            WithParameter(s, 500, parameter, "BRA requires a parameter")
      [] instruction = MNEMONIC_BRZ ->
            WithParameter(s, 600, parameter, "BRZ requires a parameter")
      [] instruction = MNEMONIC_BRP ->
            WithParameter(s, 700, parameter, "BRP requires a parameter")
      [] instruction = MNEMONIC_INP ->
            NoParameter(s, 800, parameter, "INP does not accept a parameter")
      [] instruction = MNEMONIC_OUT ->
            NoParameter(s, 900, parameter, "OUT does not accept a parameter")
      [] instruction = MNEMONIC_DAT -> Dat(s, parameter)

\* AtCapacity with the bound off by one
AtCapacityAbove(addr) == addr > MemSize

\* g_pc >= std::size(g_program)
AtCapacity(addr) == addr >= MemSize

\* the capacity check and the switch
Emission(s, instruction, parameter) ==
    IF AtCapacity(s.g_pc) THEN Diag(s, "program too long")
    ELSE Encode(s, instruction, parameter)

\* label_pc[words[0]] = g_pc;
SaveLabel(s, word) == [s EXCEPT !.label_pc = (word :> s.g_pc) @@ s.label_pc]

\* the body of the getline loop, after ++line
Pass1Line(s, input) ==
    LET words == split(input) IN
    IF words = <<>> THEN s
    ELSE IF is_mnemonic(words[1]) # MNEMONIC_NONE
    THEN IF Len(words) > 2 THEN Err(s, "more than two words on the line")
         ELSE Emission(s, is_mnemonic(words[1]),
                       IF Len(words) = 2 THEN words[2] ELSE <<>>)
    ELSE IF Len(words) < 2 THEN Err(s, "a word by itself")
    ELSE IF is_mnemonic(words[2]) = MNEMONIC_NONE
    THEN Err(s, "a label must be followed by a mnemonic")
    ELSE LET l == SaveLabel(s, words[1]) IN
         IF Len(words) > 3 THEN Err(l, "at most one parameter")
         ELSE Emission(l, is_mnemonic(words[2]),
                       IF Len(words) = 3 THEN words[3] ELSE <<>>)

\* the mnemonic of a line that has one: that of its first word, else that of
\* its second
LineMnemonic(input) ==
    LET words == split(input) IN
    IF is_mnemonic(words[1]) # MNEMONIC_NONE THEN is_mnemonic(words[1])
    ELSE is_mnemonic(words[2])

(***************************************************************************)
(* Pass 2 of parse: one reference l = (addr, word) of label_ref.           *)
(***************************************************************************)
\* AddOperand with = in the place of +=
AddOperandAssigned(s, addr, value) ==
    [s EXCEPT !.g_program[addr] = ToShort(value)]

\* g_program[l.first] += value;
AddOperand(s, addr, value) ==
    [s EXCEPT !.g_program[addr] = ToShort(@ + value)]

\* number != -1
ResolveNumber(s, addr, number) ==
    IF number > 999 THEN Err(s, "label is too large a number")
    ELSE AddOperand(s, addr, number)

\* ResolveLabel with the missing label skipped silently
ResolveLabelSilent(s, addr, word) ==
    IF word \notin DOMAIN s.label_pc THEN s
    ELSE LET e == IF s.label_pc[word] > 99
                  THEN Err(s, "offset of label is too large")
                  ELSE s
         IN  [e EXCEPT !.g_program[addr] = ToShort(@ + s.label_pc[word])]

\* ResolveLabel with the address above 99 not added
ResolveLabelSkipsFar(s, addr, word) ==
    IF word \notin DOMAIN s.label_pc THEN Err(s, "label was not found")
    ELSE IF s.label_pc[word] > 99
    THEN Err(s, "offset of label is too large")
    ELSE AddOperand(s, addr, s.label_pc[word])

\* number == -1
ResolveLabel(s, addr, word) ==
    IF word \notin DOMAIN s.label_pc THEN Err(s, "label was not found")
    ELSE LET e == IF s.label_pc[word] > 99
                  THEN Err(s, "offset of label is too large")
                  ELSE s
         IN  AddOperand(e, addr, s.label_pc[word])

Resolve(s, addr, word) ==
    IF RefNumber(word) # -1 THEN ResolveNumber(s, addr, RefNumber(word))
    ELSE ResolveLabel(s, addr, word)

\* the references the loop of pass 2 has not visited yet
Pending == {a \in DOMAIN label_ref : a >= refit}

\* the next one, in the order of the map's keys
NextRef == CHOOSE a \in Pending : \A b \in Pending : a <= b

(***************************************************************************)
(* execute: one turn of the loop.                                          *)
(***************************************************************************)
\* int const instruction(g_program[g_pc] / 100);
Instruction(cell) == CDiv(cell, 100)

\* int const loc(g_program[g_pc] % 100);
Loc(cell) == CRem(cell, 100)

\* AddOverflow with >= in the place of >
AddOverflowFrom999(a, m) == a + m >= 999

\* overflow = acc + g_program[loc] > 999;
AddOverflow(a, m) == a + m > 999

\* acc = (acc + g_program[loc]) % 1000;
AddResult(a, m) == CRem(a + m, 1000)

\* overflow = acc < g_program[loc];
SubOverflow(a, m) == a < m

\* acc = (acc - g_program[loc]) % 1000;
SubResult(a, m) == CRem(a - m, 1000)

\* InputResult with % 100 in the place of % 1000
InputResultMod100(value) == CRem(value, 100)

\* acc = value % 1000;
InputResult(value) == CRem(value, 1000)

\* if(acc == 0)
BranchZero(a) == a = 0

\* BranchPositive with the test inverted
BranchPositiveInverted(ov) == ov

\* if(!overflow)
BranchPositive(ov) == ~ov

\* the values std::cin >> value may give
InputValues == {-1, 0, 7, 901, 1005}

\* what a read of g_program past its end may give
OutOfBoundsCells == {0, 900}

\* The fetch g_program[g_pc].  With g_pc outside the array the behaviour is
\* undefined: the read gives some value or the process is killed.
Fetched ==
    IF g_pc \in 0..(MemSize - 1)
    THEN {[crash |-> FALSE, cell |-> g_program[g_pc]]}
    ELSE {[crash |-> TRUE, cell |-> 0]}
         \cup {[crash |-> FALSE, cell |-> v] : v \in OutOfBoundsCells}

\* The registers, the memory and the streams of execute as a record.
RunState ==
    [g_pc |-> g_pc, g_program |-> g_program, acc |-> acc,
     overflow |-> overflow, ninput |-> ninput, consumed |-> consumed,
     output |-> output, halt |-> FALSE]

\* switch(instruction), on the state r in which ++g_pc is done.  A cell that
\* decodes to 1..7 is in 100..799, so that loc is in 0..99.
Dispatch(r, instruction, loc, value) ==
    CASE instruction = MNEMONIC_HLT -> [r EXCEPT !.halt = TRUE]
      [] instruction = MNEMONIC_ADD ->
            [r EXCEPT !.overflow = AddOverflow(r.acc, r.g_program[loc]),
                      !.acc = AddResult(r.acc, r.g_program[loc])]
      [] instruction = MNEMONIC_SUB ->
            [r EXCEPT !.overflow = SubOverflow(r.acc, r.g_program[loc]),
                      !.acc = SubResult(r.acc, r.g_program[loc])]
      [] instruction = MNEMONIC_STA ->
            [r EXCEPT !.g_program[loc] = ToShort(r.acc)]
      [] instruction = MNEMONIC_LDA -> [r EXCEPT !.acc = r.g_program[loc]]
      [] instruction = MNEMONIC_BRA -> [r EXCEPT !.g_pc = loc]
      [] instruction = MNEMONIC_BRZ ->
            IF BranchZero(r.acc) THEN [r EXCEPT !.g_pc = loc] ELSE r
      [] instruction = MNEMONIC_BRP ->
            IF BranchPositive(r.overflow) THEN [r EXCEPT !.g_pc = loc] ELSE r
      [] instruction = MNEMONIC_INP ->
            [r EXCEPT !.acc = InputResult(value), !.ninput = @ + 1,
                      !.consumed = Append(@, value)]
      [] instruction = MNEMONIC_OUT ->
            [r EXCEPT !.output = Append(@, r.acc)]
      [] OTHER -> r

\* Cycle with the opcode taken modulo 10
CycleOpcodeModTen(r, cell, value) ==
    Dispatch([r EXCEPT !.g_pc = @ + 1], MathMod(Instruction(cell), 10),
             Loc(cell), value)

\* fetch, decode, ++g_pc, dispatch
Cycle(r, cell, value) ==
    Dispatch([r EXCEPT !.g_pc = @ + 1], Instruction(cell), Loc(cell), value)

(***************************************************************************)
(* main                                                                    *)
(***************************************************************************)
CmdLines ==
    {"help", "unknown option", "no filename", "two filenames", "file",
     "show file"}

\* whether main gets as far as calling parse
NamesFile(c) == c \in {"file", "show file"}

\* RunsInterpreter with the result of parse ignored
RunsInterpreterUnchecked(ok, sh) == ~sh

\* if(!parse(filename)) return 1; if(show) ... return 0; execute();
RunsInterpreter(ok, sh) == ok /\ ~sh

(***************************************************************************)
(* The actions.                                                            *)
(***************************************************************************)
\* main, up to the call of parse
MainArgs ==
    /\ pc = "main"
    /\ IF NamesFile(cmdline)
       THEN /\ show' = (cmdline = "show file")
            /\ pc' = "parse"
            /\ UNCHANGED status
       ELSE /\ status' = 1
            /\ pc' = "exit"
            /\ UNCHANGED show
    /\ UNCHANGED <<cmdline, opens, file, parse_ok, shown>>
    /\ UNCHANGED asmVars
    /\ UNCHANGED runVars

\* parse, up to the loop
ParseOpen ==
    /\ pc = "parse"
    /\ IF opens
       THEN /\ pc' = "pass1"
            /\ UNCHANGED <<parse_ok, diags, ndiags>>
       ELSE /\ pc' = "parsed"
            /\ parse_ok' = FALSE
            /\ diags' = diags \cup {"could not open"}
            /\ ndiags' = ndiags + 1
    /\ UNCHANGED <<cmdline, opens, file, show, shown, status>>
    /\ UNCHANGED <<line, split_words, errcount, label_pc, label_ref, emitted,
                   refit, g_pc, g_program>>
    /\ UNCHANGED runVars

\* one turn of the getline loop
ParseLine ==
    /\ pc = "pass1"
    /\ line < Len(file)
    /\ LET t == Pass1Line(AsmState, file[line + 1]) IN
        /\ g_pc' = t.g_pc
        /\ g_program' = t.g_program
        /\ label_pc' = t.label_pc
        /\ label_ref' = t.label_ref
        /\ errcount' = t.errcount
        /\ diags' = t.diags
        /\ ndiags' = t.ndiags
        /\ emitted' = IF t.g_pc # g_pc
                      THEN (g_pc :> LineMnemonic(file[line + 1])) @@ emitted
                      ELSE emitted
    /\ line' = line + 1
    /\ split_words' = split(file[line + 1])
    /\ UNCHANGED <<pc, cmdline, opens, file, show, refit, parse_ok, shown,
                   status>>
    /\ UNCHANGED runVars

\* getline fails: the loop ends
ParseEOF ==
    /\ pc = "pass1"
    /\ line = Len(file)
    /\ pc' = "pass2"
    /\ UNCHANGED <<cmdline, opens, file, show, parse_ok, shown, status>>
    /\ UNCHANGED asmVars
    /\ UNCHANGED runVars

\* one turn of the loop of pass 2
Pass2Ref ==
    /\ pc = "pass2"
    /\ Pending # {}
    /\ LET t == Resolve(AsmState, NextRef, label_ref[NextRef]) IN
        /\ g_program' = t.g_program
        /\ errcount' = t.errcount
        /\ diags' = t.diags
        /\ ndiags' = t.ndiags
    /\ refit' = NextRef + 1
    /\ UNCHANGED <<pc, cmdline, opens, file, show, parse_ok, shown, status>>
    /\ UNCHANGED <<line, split_words, label_pc, label_ref, emitted, g_pc>>
    /\ UNCHANGED runVars

\* if(errcount != 0) return false; return true;
ParseReturn ==
    /\ pc = "pass2"
    /\ Pending = {}
    /\ parse_ok' = (errcount = 0)
    /\ pc' = "parsed"
    /\ UNCHANGED <<cmdline, opens, file, show, shown, status>>
    /\ UNCHANGED asmVars
    /\ UNCHANGED runVars

\* if(!parse(filename)) return 1;
MainFail ==
    /\ pc = "parsed"
    /\ ~parse_ok
    /\ status' = 1
    /\ pc' = "exit"
    /\ UNCHANGED <<cmdline, opens, file, show, parse_ok, shown>>
    /\ UNCHANGED asmVars
    /\ UNCHANGED runVars

\* if(show) { ... return 0; }
MainShow ==
    /\ pc = "parsed"
    /\ parse_ok
    /\ show
    /\ shown' = [i \in 1..g_pc |-> <<i - 1, g_program[i - 1]>>]
    /\ status' = 0
    /\ pc' = "exit"
    /\ UNCHANGED <<cmdline, opens, file, show, parse_ok>>
    /\ UNCHANGED asmVars
    /\ UNCHANGED runVars

\* execute(), up to the loop
ExecuteStart ==
    /\ pc = "parsed"
    /\ RunsInterpreter(parse_ok, show)
    /\ g_pc' = 0
    /\ acc' = 0
    /\ overflow' = FALSE
    /\ pc' = "execute"
    /\ UNCHANGED <<cmdline, opens, file, show, parse_ok, shown, status>>
    /\ UNCHANGED <<line, split_words, errcount, diags, ndiags, label_pc,
                   label_ref, emitted, refit, g_program>>
    /\ UNCHANGED <<steps, ninput, consumed, fetched_cell, output>>

\* one turn of the loop of execute, std::cin giving a value of V; on HLT
\* execute returns and main returns 0
StepOn(V) ==
    /\ pc = "execute"
    /\ steps < MaxSteps
    /\ \E f \in Fetched :
        \E value \in (IF Instruction(f.cell) = MNEMONIC_INP THEN V ELSE {0}) :
          IF f.crash
          THEN /\ pc' = "crashed"
               /\ status' = 139
               /\ steps' = steps + 1
               /\ UNCHANGED <<g_pc, g_program, acc, overflow, ninput, consumed,
                              fetched_cell, output>>
          ELSE LET r == Cycle(RunState, f.cell, value) IN
               /\ g_pc' = r.g_pc
               /\ g_program' = r.g_program
               /\ acc' = r.acc
               /\ overflow' = r.overflow
               /\ ninput' = r.ninput
               /\ consumed' = r.consumed
               /\ fetched_cell' = f.cell
               /\ output' = r.output
               /\ steps' = steps + 1
               /\ pc' = IF r.halt THEN "exit" ELSE "execute"
               /\ status' = IF r.halt THEN 0 ELSE status
    /\ UNCHANGED <<cmdline, opens, file, show, parse_ok, shown>>
    /\ UNCHANGED <<line, split_words, errcount, diags, ndiags, label_pc,
                   label_ref, emitted, refit>>

Step == StepOn(InputValues)

Next ==
    \/ MainArgs
    \/ ParseOpen
    \/ ParseLine
    \/ ParseEOF
    \/ Pass2Ref
    \/ ParseReturn
    \/ MainFail
    \/ MainShow
    \/ ExecuteStart
    \/ Step

(***************************************************************************)
(* The source files.                                                       *)
(***************************************************************************)
\* the lines a file of Spec is made of
SourceLines ==
    { <<>>,                                                  \* (empty)
      <<"#", "c">>,                                          \* #c
      <<"i", "n", "p">>,                                     \* inp
      <<"H", "L", "T">>,                                     \* HLT
      <<"\t", "y", " ", "O", "U", "T", ";", "c">>,           \* <tab>y OUT;c
      <<"D", "A", "T">>,                                     \* DAT
      <<"D", "A", "T", " ", "-", "5">>,                      \* DAT -5
      <<"D", "A", "T", " ", "9", "z">>,                      \* DAT 9z
      <<"D", "A", "T", " ", "1", "0", "0", "0">>,            \* DAT 1000
      <<"x", " ", "D", "A", "T", " ", "9", "9", "9">>,       \* x DAT 999
      <<"S", "T", "A", " ", "5">>,                           \* STA 5
      <<"A", "D", "D", " ", "9", "9", "9">>,                 \* ADD 999
      <<"L", "D", "A", " ", "1", "5", "0">>,                 \* LDA 150
      <<"A", "D", "D", " ", "1", "0", "0", "0">>,            \* ADD 1000
      <<"s", "u", "b", " ", " ", "x">>,                      \* sub  x
      <<"B", "R", "A", " ", "y">>,                           \* BRA y
      <<"x", " ", "B", "R", "Z", " ", "x">>,                 \* x BRZ x
      <<"B", "R", "P", " ", "0">>,                           \* BRP 0
      <<"A", "D", "D">>,                                     \* ADD
      <<"H", "L", "T", " ", "1">>,                           \* HLT 1
      <<"x">>,                                               \* x
      <<"x", " ", "y">>,                                     \* x y
      <<"O", "U", "T", " ", "1", " ", "2">>,                 \* OUT 1 2
      <<"y", " ", "L", "D", "A", " ", "1", " ", "2">> }      \* y LDA 1 2

\* the files of at most MaxLines lines
Files == UNION {[1..n -> SourceLines] : n \in 0..MaxLines}

\* the lines a file of SpecCap is filled with, up to the capacity
FillLines ==
    { <<"O", "U", "T">>,                                     \* OUT
      <<"D", "A", "T", " ", "7">>,                           \* DAT 7
      <<"x", " ", "A", "D", "D", " ", "x">>,                 \* x ADD x
      <<"B", "R", "A", " ", "z">> }                          \* BRA z

\* the lines that follow them
ExtraLines ==
    { <<"H", "L", "T">>,                                     \* HLT
      <<"z", " ", "D", "A", "T", " ", "7">>,                 \* z DAT 7
      <<"S", "T", "A", " ", "1">>,                           \* STA 1
      <<"x">> }                                              \* x

\* MemSize well-formed lines, then at most MaxExtra lines
CapFiles ==
    { [i \in 1..MemSize |-> l] \o t :
        l \in FillLines,
        t \in UNION {[1..n -> ExtraLines] : n \in 0..MaxExtra} }

(***************************************************************************)
(* The source files of SpecRun: whole programs, assembled and then run.    *)
(***************************************************************************)
\* INP / STA 99 / LDA 99 / OUT / HLT
IOProgram ==
    << <<"I", "N", "P">>,
       <<"S", "T", "A", " ", "9", "9">>,
       <<"L", "D", "A", " ", "9", "9">>,
       <<"O", "U", "T">>,
       <<"H", "L", "T">> >>

\* INP / STA 99 / BRA 99: the input is run as the instruction of cell 99
EndProgram ==
    << <<"I", "N", "P">>,
       <<"S", "T", "A", " ", "9", "9">>,
       <<"B", "R", "A", " ", "9", "9">> >>

\* INP / SUB d / BRP 4 / ADD 999 / BRZ 6 / ADD d / OUT / d DAT 7
ArithProgram ==
    << <<"I", "N", "P">>,
       <<"S", "U", "B", " ", "d">>,
       <<"B", "R", "P", " ", "4">>,
       <<"A", "D", "D", " ", "9", "9", "9">>,
       <<"B", "R", "Z", " ", "6">>,
       <<"A", "D", "D", " ", "d">>,
       <<"O", "U", "T">>,
       <<"d", " ", "D", "A", "T", " ", "7">> >>

RunFiles == {<<>>, IOProgram, EndProgram, ArithProgram}

\* the values the first std::cin >> value of a run of SpecRun may give
FirstInputs == (0..999) \cup {-1, 1005}

(***************************************************************************)
(* The memory images execute is started on in SpecExec: a program in the   *)
(* cells CodeAddrs, data in the cells DataAddrs, 0 elsewhere.  Each is the *)
(* image of a source of DAT lines.                                         *)
(***************************************************************************)
CodeAddrs == {0, 1, 2}
DataAddrs == {10, 11}
CodeCells == {0, 110, 111, 210, 211, 311, 410, 500, 600, 702, 800, 900}
DataCells == {0, 2, 999}

Images ==
    { [a \in 0..(MemSize - 1) |->
         IF a \in CodeAddrs THEN code[a]
         ELSE IF a \in DataAddrs THEN data[a] ELSE 0] :
        code \in [CodeAddrs -> CodeCells], data \in [DataAddrs -> DataCells] }

(***************************************************************************)
(* The specifications.                                                     *)
(***************************************************************************)
\* the process starts main on a command line and a file of the set F
InitOn(F) ==
    /\ pc = "main"
    /\ cmdline \in CmdLines
    /\ opens \in BOOLEAN
    /\ file \in F
    /\ (~NamesFile(cmdline) \/ ~opens) => file = <<>>
    /\ show = FALSE
    /\ line = 0
    /\ split_words = <<>>
    /\ errcount = 0
    /\ diags = {}
    /\ ndiags = 0
    /\ label_pc = <<>>
    /\ label_ref = <<>>
    /\ emitted = <<>>
    /\ refit = 0
    /\ parse_ok = FALSE
    /\ g_pc = 0
    /\ g_program = [a \in 0..(MemSize - 1) |-> 0]
    /\ acc = 0
    /\ overflow = FALSE
    /\ steps = 0
    /\ ninput = 0
    /\ consumed = <<>>
    /\ fetched_cell = 0
    /\ output = <<>>
    /\ shown = <<>>
    /\ status = -1

Init == InitOn(Files)

Spec == Init /\ [][Next]_vars

\* the files that reach the capacity of the memory
InitCap == InitOn(CapFiles \cup {<<>>})

SpecCap == InitCap /\ [][Next]_vars

\* the lines of SourceLines that differ in what the two passes do with them
LayoutLines ==
    SourceLines \ { <<"#", "c">>,
                    <<"H", "L", "T">>,
                    <<"D", "A", "T", " ", "-", "5">>,
                    <<"D", "A", "T", " ", "9", "z">>,
                    <<"S", "T", "A", " ", "5">>,
                    <<"L", "D", "A", " ", "1", "5", "0">>,
                    <<"B", "R", "P", " ", "0">> }

LayoutFiles == UNION {[1..n -> LayoutLines] : n \in 0..MaxLines}

\* short files of every kind of line and the files of SpecCap together
InitAll == InitOn(LayoutFiles \cup CapFiles)

SpecAll == InitAll /\ [][Next]_vars

\* whole programs, the first input of a run drawn from FirstInputs
InitRun == InitOn(RunFiles)

StepRun == StepOn(IF ninput = 0 THEN FirstInputs ELSE InputValues)

NextRun ==
    \/ MainArgs
    \/ ParseOpen
    \/ ParseLine
    \/ ParseEOF
    \/ Pass2Ref
    \/ ParseReturn
    \/ MainFail
    \/ MainShow
    \/ ExecuteStart
    \/ StepRun

SpecRun == InitRun /\ [][NextRun]_vars

\* the characters the lines of SpecSplit are made of
SplitChars == {"a", "1", " ", "\t", "#", "/", ";"}

\* every line of at most MaxLineLen of them
SplitLines == UNION {[1..n -> SplitChars] : n \in 0..MaxLineLen}

\* parse is about to read the only line of a file
InitSplit ==
    /\ pc = "pass1"
    /\ cmdline = "file"
    /\ opens = TRUE
    /\ file \in {<<l>> : l \in SplitLines}
    /\ show = FALSE
    /\ line = 0
    /\ split_words = <<>>
    /\ errcount = 0
    /\ diags = {}
    /\ ndiags = 0
    /\ label_pc = <<>>
    /\ label_ref = <<>>
    /\ emitted = <<>>
    /\ refit = 0
    /\ parse_ok = FALSE
    /\ g_pc = 0
    /\ g_program = [a \in 0..(MemSize - 1) |-> 0]
    /\ acc = 0
    /\ overflow = FALSE
    /\ steps = 0
    /\ ninput = 0
    /\ consumed = <<>>
    /\ fetched_cell = 0
    /\ output = <<>>
    /\ shown = <<>>
    /\ status = -1

NextSplit == ParseLine

SpecSplit == InitSplit /\ [][NextSplit]_vars

\* execute is entered on an image
InitExec ==
    /\ pc = "execute"
    /\ cmdline = "file"
    /\ opens = TRUE
    /\ file = <<>>
    /\ show = FALSE
    /\ line = 0
    /\ split_words = <<>>
    /\ errcount = 0
    /\ diags = {}
    /\ ndiags = 0
    /\ label_pc = <<>>
    /\ label_ref = <<>>
    /\ emitted = <<>>
    /\ refit = 0
    /\ parse_ok = TRUE
    /\ g_pc = 0
    /\ g_program \in Images
    /\ acc = 0
    /\ overflow = FALSE
    /\ steps = 0
    /\ ninput = 0
    /\ consumed = <<>>
    /\ fetched_cell = 0
    /\ output = <<>>
    /\ shown = <<>>
    /\ status = -1

NextExec == Step

SpecExec == InitExec /\ [][NextExec]_vars

(***************************************************************************)
(* Notions the properties are stated with.                                 *)
(***************************************************************************)
Cells == 0..(MemSize - 1)

\* a cell of the Little Man Computer holds three decimal digits
InRange(v) == v \in 0..999

AllDigits(word) == \A i \in 1..Len(word) : IsDigit(word[i])

\* the number an all-digit word denotes
RECURSIVE DecimalValue(_)
DecimalValue(word) ==
    IF word = <<>> THEN 0
    ELSE DecimalValue(SubSeq(word, 1, Len(word) - 1)) * 10
         + DigitVal(word[Len(word)])

\* parse has returned
AfterParse == pc \in {"parsed", "execute", "exit", "crashed"}

\* the references whose word is a label that no line defines
Unresolved ==
    {a \in DOMAIN label_ref :
        ~AllDigits(label_ref[a]) /\ label_ref[a] \notin DOMAIN label_pc}

\* the references pass 2 adds into their cell
Added ==
    {a \in DOMAIN label_ref :
        IF AllDigits(label_ref[a]) THEN DecimalValue(label_ref[a]) <= 999
        ELSE label_ref[a] \in DOMAIN label_pc}

\* the value of the operand of the reference at a
OperandValue(a) ==
    IF AllDigits(label_ref[a]) THEN DecimalValue(label_ref[a])
    ELSE label_pc[label_ref[a]]

\* the mnemonics that take an operand
TakesOperand(m) == m \in MNEMONIC_ADD..MNEMONIC_BRP

\* [label] MNEMONIC [parameter], with the parameter the mnemonic asks for
WellFormedLine(input) ==
    LET words == split(input)
        n == Len(words)
        Fits(m, params) ==
            \/ TakesOperand(m) /\ Len(params) = 1
            \/ m \in {MNEMONIC_HLT, MNEMONIC_INP, MNEMONIC_OUT} /\ params = <<>>
            \/ m = MNEMONIC_DAT /\ params = <<>>
            \/ m = MNEMONIC_DAT /\ Len(params) = 1 /\ AllDigits(params[1])
               /\ DecimalValue(params[1]) <= 999
    IN  /\ n \in 1..3
        /\ IF is_mnemonic(words[1]) # MNEMONIC_NONE
           THEN Fits(is_mnemonic(words[1]), SubSeq(words, 2, n))
           ELSE /\ n >= 2
                /\ is_mnemonic(words[2]) # MNEMONIC_NONE
                /\ Fits(is_mnemonic(words[2]), SubSeq(words, 3, n))

\* execute is about to fetch the instruction m from inside the memory
Fetches(m) ==
    /\ pc = "execute"
    /\ g_pc \in Cells
    /\ Instruction(g_program[g_pc]) = m

\* the cell the fetched instruction names
Operand == g_program[Loc(g_program[g_pc])]

(***************************************************************************)
(* C1: whenever parse returns true, every one of the 100 cells of          *)
(* g_program holds a value in 0..999.                                      *)
(* The code lets it fail: ADD 999 leaves 1099, DAT -5 leaves -5.           *)
(***************************************************************************)
C1_AssembledCellsInRange ==
    (pc = "parsed" /\ parse_ok) => \A a \in Cells : InRange(g_program[a])

(***************************************************************************)
(* C2: every error parse reports increments errcount, so that parse        *)
(* returns true if and only if it wrote no error message.                  *)
(* The code lets it fail: the messages of the capacity check and of the    *)
(* DAT range check come without ++errcount.                                *)
(***************************************************************************)
C2_SuccessIffNoDiagnostic ==
    pc = "parsed" => (parse_ok <=> diags = {})

(***************************************************************************)
(* C3: started on an image whose cells are all in 0..999, execute keeps    *)
(* every cell in 0..999, whatever the inputs.                              *)
(* The code lets it fail: STA stores an accumulator that SUB or INP made   *)
(* negative.                                                               *)
(***************************************************************************)
C3_RunCellsInRange == \A a \in Cells : InRange(g_program[a])

(***************************************************************************)
(* C4: after ADD or SUB the accumulator is in 0..999 and is the            *)
(* non-negative remainder modulo 1000 of the sum, respectively of the      *)
(* difference.                                                             *)
(* The code lets it fail: % of a negative difference is negative.          *)
(***************************************************************************)
C4_ArithmeticIsModular ==
    [][ /\ (Fetches(MNEMONIC_ADD) /\ steps' = steps + 1)
            => (InRange(acc') /\ acc' = MathMod(acc + Operand, 1000))
        /\ (Fetches(MNEMONIC_SUB) /\ steps' = steps + 1)
            => (InRange(acc') /\ acc' = MathMod(acc - Operand, 1000)) ]_vars

(***************************************************************************)
(* C5: execute is entered only after parse returned true; when parse       *)
(* returns false no instruction is ever fetched and the process exits with *)
(* status 1, while status 0 is kept for a successful assembly.             *)
(***************************************************************************)
C5_InterpreterOnlyAfterSuccess ==
    /\ (pc \in {"execute", "crashed"} \/ steps > 0) => parse_ok
    /\ (pc = "exit" /\ ~parse_ok)
          => (status = 1 /\ steps = 0 /\ ninput = 0 /\ output = <<>>)
    /\ (pc = "exit" /\ status = 0) => parse_ok

\* a file was assembled, assembly failed and the process has ended
C5_Witness ==
    /\ pc = "exit"
    /\ line > 0
    /\ errcount > 0
    /\ ~parse_ok
    /\ status = 1

(***************************************************************************)
(* C6: if the operand of an emitted instruction is not all digits and is   *)
(* no key of label_pc, parse reports "label was not found" and returns     *)
(* false, and execute is never entered.                                    *)
(***************************************************************************)
C6_UnresolvedLabelFails ==
    (AfterParse /\ Unresolved # {})
        => /\ "label was not found" \in diags
           /\ ~parse_ok
           /\ pc \notin {"execute", "crashed"}
           /\ steps = 0

\* a file with an undefined label was assembled and the process has ended
C6_Witness ==
    /\ pc = "exit"
    /\ Unresolved # {}
    /\ status = 1

(***************************************************************************)
(* C7: once pass 2 has handled a reference that it does not skip, the cell *)
(* is opcode * 100 + V, V being the address label_pc holds for a label and *)
(* N for an all-digit literal N <= 999.                                    *)
(***************************************************************************)
C7_ResolvedCellIsBasePlusOperand ==
    \A a \in Added :
        (pc = "parsed" \/ (pc = "pass2" /\ a < refit))
            => /\ TakesOperand(emitted[a])
               /\ g_program[a] = emitted[a] * 100 + OperandValue(a)

\* pass 2 is over, a label with an address other than 0 was added into
\* a cell
C7_Witness ==
    /\ pc = "parsed"
    /\ \E a \in Added : ~AllDigits(label_ref[a]) /\ OperandValue(a) > 0

(***************************************************************************)
(* C8: after a successful assembly the operand of every resolved           *)
(* instruction is in 0..99 and decoding the cell (/ 100, % 100) gives back *)
(* the mnemonic of the line and the value of its operand.                  *)
(* The code lets it fail: a literal up to 999 is accepted, LDA 150 leaves  *)
(* 550, which decodes to BRA 50.                                           *)
(***************************************************************************)
C8_DecodeRoundTrip ==
    (pc = "parsed" /\ parse_ok)
        => \A a \in DOMAIN label_ref :
              /\ OperandValue(a) \in 0..99
              /\ Instruction(g_program[a]) = emitted[a]
              /\ Loc(g_program[a]) = OperandValue(a)

(***************************************************************************)
(* C9: a source of exactly 100 well-formed lines whose references resolve  *)
(* assembles successfully with g_pc = 100; with g_pc at 100, one more      *)
(* well-formed line gets the "program too long" message, emits nothing,    *)
(* leaves g_pc at 100 and leaves the 100 cells as they are.                *)
(***************************************************************************)
C9_FullSourceAssembles ==
    ( /\ pc = "parsed"
      /\ opens
      /\ Len(file) = MemSize
      /\ \A i \in 1..Len(file) : WellFormedLine(file[i])
      /\ Added = DOMAIN label_ref )
        => (parse_ok /\ g_pc = MemSize)

C9_LineBeyondCapacity ==
    ( /\ pc = "pass1"
      /\ line < Len(file)
      /\ g_pc = MemSize
      /\ WellFormedLine(file[line + 1])
      /\ line' = line + 1 )
        => /\ "program too long" \in diags'
           /\ g_pc' = MemSize
           /\ g_program' = g_program
           /\ label_ref' = label_ref
           /\ emitted' = emitted

C9_Capacity == [](C9_FullSourceAssembles) /\ [][C9_LineBeyondCapacity]_vars

\* the 100 cells are emitted and a line after them was turned away
C9_Witness ==
    /\ pc = "parsed"
    /\ g_pc = MemSize
    /\ line > MemSize
    /\ DOMAIN emitted = Cells
    /\ "program too long" \in diags

(***************************************************************************)
(* C10: after ADD the overflow flag is true exactly when the previous      *)
(* accumulator plus the cell is above 999 (999 + 2 gives overflow and the  *)
(* accumulator 1); after SUB it is true exactly when the cell is above the *)
(* previous accumulator.                                                   *)
(***************************************************************************)
C10_OverflowIsCarryOrBorrow ==
    [][ /\ (Fetches(MNEMONIC_ADD) /\ steps' = steps + 1)
            => /\ overflow' = (acc + Operand > 999)
               /\ (acc = 999 /\ Operand = 2) => (overflow' /\ acc' = 1)
        /\ (Fetches(MNEMONIC_SUB) /\ steps' = steps + 1)
            => overflow' = (Operand > acc) ]_vars

\* LDA of a cell that holds 999, then ADD of a cell that holds 2
C10_Witness ==
    /\ pc = "execute"
    /\ steps = 2
    /\ g_program[0] = 410
    /\ g_program[10] = 999
    /\ g_program[1] = 111
    /\ g_program[11] = 2
    /\ overflow
    /\ acc = 1

(***************************************************************************)
(* C11: BRA always sets the program counter to its operand; BRZ sets it to *)
(* the operand exactly when the accumulator is 0; BRP sets it to the       *)
(* operand exactly when the overflow flag is false, whatever the           *)
(* accumulator; a branch not taken leaves the program counter at the       *)
(* fetched address plus one.  A branch changes nothing else.               *)
(***************************************************************************)
C11_Branching ==
    [][ /\ (Fetches(MNEMONIC_BRA) /\ steps' = steps + 1)
            => g_pc' = Loc(g_program[g_pc])
        /\ (Fetches(MNEMONIC_BRZ) /\ steps' = steps + 1)
            => g_pc' = IF acc = 0 THEN Loc(g_program[g_pc]) ELSE g_pc + 1
        /\ (Fetches(MNEMONIC_BRP) /\ steps' = steps + 1)
            => g_pc' = IF overflow = FALSE THEN Loc(g_program[g_pc])
                       ELSE g_pc + 1
        /\ ( /\ Fetches(MNEMONIC_BRA) \/ Fetches(MNEMONIC_BRZ)
                   \/ Fetches(MNEMONIC_BRP)
             /\ steps' = steps + 1 )
            => UNCHANGED <<g_program, acc, overflow, ninput, output>> ]_vars

\* INP gave -1, OUT, then BRP 2 at address 2 was taken with the overflow
\* flag clear and a negative accumulator: the program counter is the
\* operand 2, not the fetched address plus one
C11_Witness ==
    /\ pc = "execute"
    /\ steps = 3
    /\ g_program[0] = 800
    /\ g_program[1] = 900
    /\ g_program[2] = 702
    /\ ~overflow
    /\ acc = -1
    /\ g_pc = 2

(***************************************************************************)
(* C12: the program INP / STA 99 / LDA 99 / OUT / HLT assembles            *)
(* successfully and, for every input value v in 0..999, its run consumes   *)
(* exactly one input, writes exactly one output equal to v and then halts  *)
(* (the fifth fetch is the HLT); in general each INP consumes exactly one  *)
(* input, each OUT appends exactly one output equal to the accumulator,    *)
(* and no other instruction reads input or writes output.                  *)
(***************************************************************************)
\* the step is a turn of the loop of execute that fetched the instruction m
Executed(m) ==
    /\ pc = "execute"
    /\ steps' = steps + 1
    /\ pc' # "crashed"
    /\ Instruction(fetched_cell') = m

C12_IOProgramAssembles ==
    (file = IOProgram /\ AfterParse)
        => /\ parse_ok
           /\ diags = {}
           /\ \A a \in Cells :
                 (a # 99 \/ steps < 2) =>
                 g_program[a] =
                     IF a = 0 THEN 800
                     ELSE IF a = 1 THEN 399
                     ELSE IF a = 2 THEN 499
                     ELSE IF a = 3 THEN 900
                     ELSE 0

C12_IOProgramRuns ==
    (file = IOProgram /\ ~show /\ steps >= 1 /\ consumed[1] \in 0..999)
        => /\ pc # "crashed"
           /\ steps <= 5
           /\ (pc = "execute") = (steps < 5)
           /\ (pc = "exit") = (steps = 5)
           /\ consumed = <<consumed[1]>>
           /\ ninput = 1
           /\ output = IF steps >= 4 THEN <<consumed[1]>> ELSE <<>>
           /\ pc = "exit" => status = 0

C12_IOFrame ==
    /\ Executed(MNEMONIC_INP)
          => /\ Len(consumed') = Len(consumed) + 1
             /\ SubSeq(consumed', 1, Len(consumed)) = consumed
             /\ ninput' = ninput + 1
             /\ output' = output
    /\ Executed(MNEMONIC_OUT)
          => /\ output' = Append(output, acc)
             /\ acc' = acc
             /\ consumed' = consumed
             /\ ninput' = ninput
    /\ (~Executed(MNEMONIC_INP) /\ ~Executed(MNEMONIC_OUT))
          => UNCHANGED <<consumed, ninput, output>>

C14_WriteOncePerEntry ==
    [][ /\ \A w \in DOMAIN label_pc :
              w \in DOMAIN label_pc' /\ label_pc'[w] = label_pc[w]
        /\ \A a \in DOMAIN label_ref :
              a \in DOMAIN label_ref' /\ label_ref'[a] = label_ref[a] ]_vars

(***************************************************************************)
(* C15: a run of the interpreter ends exactly when it fetches a halt (a    *)
(* cell that decodes to opcode 0), and then at once, with no change of a   *)
(* register, of the memory or of the streams; every other fetched          *)
(* instruction goes on to the next cycle; there is no other exit.          *)
(* The code lets it fail: with g_pc at 100 the fetch reads past the end of *)
(* g_program (C19) and the process may be killed there.                    *)
(***************************************************************************)
C15_EndsExactlyOnHalt ==
    [][ /\ (pc = "execute" /\ pc' # "execute")
            => /\ pc' = "exit"
               /\ status' = 0
               /\ Instruction(fetched_cell') = MNEMONIC_HLT
               /\ UNCHANGED <<g_program, acc, overflow, ninput, consumed,
                              output>>
        /\ (pc = "execute" /\ steps' = steps + 1 /\ pc' = "execute")
            => Instruction(fetched_cell') # MNEMONIC_HLT ]_vars

(***************************************************************************)
(* C19: every memory index the interpreter uses is inside the image: at    *)
(* each fetch g_pc is in 0..99, and the operand ADD, SUB, STA and LDA      *)
(* read or write memory with is in 0..99, for every successfully assembled *)
(* program and every input.                                                *)
(* The code lets it fail: after the instruction of cell 99, when it is no  *)
(* halt and no branch taken, g_pc is 100 at the next fetch.                *)
(***************************************************************************)
C19_IndexInsideImage ==
    pc = "execute"
        => /\ g_pc \in Cells
           /\ Instruction(g_program[g_pc]) \in MNEMONIC_ADD..MNEMONIC_LDA
                 => Loc(g_program[g_pc]) \in Cells

(***************************************************************************)
(* C16: in pass 1 the counter g_pc never decreases and stays in 0..100;    *)
(* a line that is accepted writes exactly one cell, the one at the         *)
(* counter, with the base value of its mnemonic (opcode * 100; for DAT 0   *)
(* with no parameter, else the literal) and advances the counter by one;   *)
(* a line rejected with a message writes no cell and leaves the counter;   *)
(* the cells at or above the counter are never written.                    *)
(***************************************************************************)
\* parse is at work
Assembling == pc \in {"parse", "pass1", "pass2"}

\* the step reads a line in pass 1
ReadsLine == pc = "pass1" /\ line' = line + 1

\* the value the claim gives for the cell of an accepted line; a DAT
\* parameter that is no literal is left open
BaseValueFits(input, value) ==
    LET m == LineMnemonic(input)
        ws == split(input)
        parameter == ws[Len(ws)]
    IN  IF m # MNEMONIC_DAT THEN value = m * 100
        ELSE IF is_mnemonic(parameter) = MNEMONIC_DAT THEN value = 0
        ELSE AllDigits(parameter) => value = DecimalValue(parameter)

C16_CounterInRange ==
    (Assembling \/ pc = "parsed")
        => /\ g_pc \in 0..MemSize
           /\ \A a \in Cells : a >= g_pc => g_program[a] = 0

C16_LineLayout ==
    /\ Assembling => g_pc' >= g_pc
    /\ (ReadsLine /\ ndiags' > ndiags)
          => (g_pc' = g_pc /\ g_program' = g_program)
    /\ (ReadsLine /\ split(file[line + 1]) = <<>>)
          => (g_pc' = g_pc /\ g_program' = g_program /\ ndiags' = ndiags)
    /\ (ReadsLine /\ ndiags' = ndiags /\ split(file[line + 1]) # <<>>)
          => /\ g_pc \in Cells
             /\ g_pc' = g_pc + 1
             /\ \A a \in Cells : a # g_pc => g_program'[a] = g_program[a]
             /\ BaseValueFits(file[line + 1], g_program'[g_pc])

C16_Pass1Layout == [](C16_CounterInRange) /\ [][C16_LineLayout]_vars

\* pass 1 has accepted the line x DAT 999 and rejected the line ADD
C16_Witness ==
    /\ pc = "pass1"
    /\ line = 2
    /\ g_pc = 1
    /\ g_program[0] = 999
    /\ "ADD requires a parameter" \in diags

(***************************************************************************)
(* C17: in pass 2 an all-digit operand above 999 and a label that no line  *)
(* defines are each counted as an error and leave the cell at its base     *)
(* value of pass 1; a label whose address is above 99 (defined on a line   *)
(* reached with the counter at 100) is counted as an error and its address *)
(* is added into the cell all the same; pass 2 changes no cell but those   *)
(* with a pending reference.                                               *)
(***************************************************************************)
C17_ReferenceOutcome ==
    (pc = "pass2" /\ refit' > refit)
        => LET a == refit' - 1
               w == label_ref[a]
               base == emitted[a] * 100
           IN  /\ a \in DOMAIN label_ref
               /\ g_program[a] = base
               /\ \A b \in Cells : b # a => g_program'[b] = g_program[b]
               /\ (AllDigits(w) /\ DecimalValue(w) > 999)
                     => (errcount' = errcount + 1 /\ g_program'[a] = base)
               /\ (~AllDigits(w) /\ w \notin DOMAIN label_pc)
                     => (errcount' = errcount + 1 /\ g_program'[a] = base)
               /\ (~AllDigits(w) /\ w \in DOMAIN label_pc)
                     => IF label_pc[w] > 99
                        THEN /\ errcount' = errcount + 1
                             /\ g_program'[a] = base + label_pc[w]
                        ELSE /\ errcount' = errcount
                             /\ g_program'[a] = base + label_pc[w]

C17_OnlyPendingCells ==
    pc = "pass2"
        => \A b \in Cells :
              b \notin DOMAIN label_ref => g_program'[b] = g_program[b]

C17_Pass2Outcomes == [][C17_ReferenceOutcome /\ C17_OnlyPendingCells]_vars

\* 100 lines BRA z, then z DAT 7 read with the counter at 100: z is 100,
\* every cell is 500 + 100 and every reference was counted
C17_Witness ==
    /\ pc = "parsed"
    /\ \E w \in DOMAIN label_pc : label_pc[w] = MemSize
    /\ \A a \in Cells : g_program[a] = 600
    /\ errcount = MemSize
    /\ ~parse_ok

(***************************************************************************)
(* C18: a step of the interpreter changes only what its opcode names: the  *)
(* overflow flag changes only on ADD and SUB; the accumulator changes only *)
(* on ADD, SUB, LDA and INP; the memory changes only on STA and only at    *)
(* the operand address; a cell that decodes to no opcode of 0..9 changes   *)
(* nothing but the program counter, which advances by one.                 *)
(***************************************************************************)
C18_StepFrame ==
    (pc = "execute" /\ steps' = steps + 1 /\ pc' # "crashed")
        => LET op == Instruction(fetched_cell')
               loc == Loc(fetched_cell')
           IN  /\ overflow' # overflow
                     => op \in {MNEMONIC_ADD, MNEMONIC_SUB}
               /\ acc' # acc
                     => op \in {MNEMONIC_ADD, MNEMONIC_SUB, MNEMONIC_LDA,
                                MNEMONIC_INP}
               /\ g_program' # g_program
                     => /\ op = MNEMONIC_STA
                        /\ loc \in Cells
                        /\ \A b \in Cells :
                              b # loc => g_program'[b] = g_program[b]
               /\ op \notin MNEMONIC_HLT..MNEMONIC_OUT
                     => /\ g_pc' = g_pc + 1
                        /\ pc' = "execute"
                        /\ UNCHANGED <<g_program, acc, overflow, ninput,
                                       consumed, output>>

C18_OpcodeFrame == [][C18_StepFrame]_vars

\* the cell 1099 that ADD 999 assembles to was fetched at address 3 and the
\* run went on at address 4 with the registers of the SUB before it
C18_Witness ==
    /\ file = ArithProgram
    /\ pc = "execute"
    /\ steps = 4
    /\ fetched_cell = 1099
    /\ g_pc = 4
    /\ overflow
    /\ acc < 0

(***************************************************************************)
(* C20: split returns, in order, exactly the maximal runs of characters of *)
(* the line that come before its first comment character (#, / or ;) and   *)
(* hold no white space: no token is empty or holds white space or a        *)
(* comment character, a comment character ends the token it follows at     *)
(* once, nothing after it becomes a token, and a blank or fully commented  *)
(* line gives the empty sequence.                                          *)
(***************************************************************************)
\* the length of the part of the line before its first comment character
CodeLen(input) ==
    IF \E i \in 1..Len(input) : is_comment(input[i])
    THEN (CHOOSE i \in 1..Len(input) :
             /\ is_comment(input[i])
             /\ \A j \in 1..(i - 1) : ~is_comment(input[j])) - 1
    ELSE Len(input)

\* where a maximal run with no white space starts, and where one ends
RunStarts(input) ==
    {i \in 1..CodeLen(input) :
        ~isspace(input[i]) /\ (i = 1 \/ isspace(input[i - 1]))}

RunEnds(input) ==
    {i \in 1..CodeLen(input) :
        ~isspace(input[i]) /\ (i = CodeLen(input) \/ isspace(input[i + 1]))}

\* the k-th number of a set of numbers, in increasing order
Nth(S, k) == CHOOSE x \in S : Cardinality({y \in S : y < x}) = k - 1

ExpectedTokens(input) ==
    [k \in 1..Cardinality(RunStarts(input)) |->
        SubSeq(input, Nth(RunStarts(input), k), Nth(RunEnds(input), k))]

C20_SplitTokens ==
    (pc = "pass1" /\ line = 1)
        => /\ split_words = ExpectedTokens(file[1])
           /\ \A k \in 1..Len(split_words) :
                 /\ split_words[k] # <<>>
                 /\ \A i \in 1..Len(split_words[k]) :
                       /\ ~isspace(split_words[k][i])
                       /\ ~is_comment(split_words[k][i])
           /\ (\A i \in 1..CodeLen(file[1]) : isspace(file[1][i]))
                 => split_words = <<>>

\* the line a#1 was read: the comment character ended the token a and the
\* 1 after it is no token
C20_Witness ==
    /\ pc = "pass1"
    /\ line = 1
    /\ file[1] = <<"a", "#", "1">>
    /\ split_words = << <<"a">> >>

====
